---------------------------- MODULE Spec2Model ----------------------------
(***************************************************************************)
(* A model of AnimalGuesserML (src/animal_guesser.py): the entity store,   *)
(* the question bank, candidate filtering, entropy-ranked question         *)
(* selection, the scored guess, the learning update and the JSON snapshot, *)
(* driven by the menu loop of main() and the steps of play_game().         *)
(*                                                                         *)
(* Representation.                                                         *)
(*  - Feature values are kept in halves: 0 is 0, Half is 0.5, One is 1.    *)
(*    The code compares values only with 0.5, so "> 0.5" is "> Half".      *)
(*  - Names, descriptions and keywords are sequences of one-character      *)
(*    strings, so that str.lower() and the substring test of               *)
(*    extract_features_from_description are computed, not assumed.         *)
(*  - A dict is a function; the empty dict is << >>.                       *)
(*  - A list of animals returned by filter_candidates is the sequence of   *)
(*    their positions in self.animals (the code returns references to the  *)
(*    stored dicts, in stored order).  Position 0 stands for None.         *)
(*  - Confidence is kept in units of 1/10000 (0.95 is 9500, 0.1 is 1000).  *)
(***************************************************************************)
EXTENDS Integers, Sequences, FiniteSets, TLC

VARIABLES animals, questions, game_history, stats, file,
          pc, games, answers, asked_features, question_num, question, guess

vars == << animals, questions, game_history, stats, file,
           pc, games, answers, asked_features, question_num, question, guess >>

(***************************************************************************)
(* Bounds of the model.                                                    *)
(***************************************************************************)
MaxGames == 2

(***************************************************************************)
(* Value scale.                                                            *)
(***************************************************************************)
Half == 1
One == 2

max_questions == 10

EmptyDict == << >>

Get(d, k, default) == IF k \in DOMAIN d THEN d[k] ELSE default

(***************************************************************************)
(* str.lower() and the `in` substring test, on ASCII text.                 *)
(***************************************************************************)
UpperCase == << "A", "B", "C", "D", "E", "F", "G", "H", "I", "J", "K", "L", "M",
                "N", "O", "P", "Q", "R", "S", "T", "U", "V", "W", "X", "Y", "Z" >>

LowerCase == << "a", "b", "c", "d", "e", "f", "g", "h", "i", "j", "k", "l", "m",
                "n", "o", "p", "q", "r", "s", "t", "u", "v", "w", "x", "y", "z" >>

ToLower ==
  [ c \in { UpperCase[i] : i \in 1..Len(UpperCase) } |->
      LowerCase[CHOOSE i \in 1..Len(UpperCase) : UpperCase[i] = c] ]

LowerChar(c) == IF c \in DOMAIN ToLower THEN ToLower[c] ELSE c

Lower(s) == [i \in 1..Len(s) |-> LowerChar(s[i])]

Contains(keyword, text) ==
  \E i \in 0..(Len(text) - Len(keyword)) :
     SubSeq(text, i + 1, i + Len(keyword)) = keyword

(***************************************************************************)
(* Built-in defaults of load_animals and load_questions.  Weights are in   *)
(* tenths (0.8 is 8).                                                      *)
(***************************************************************************)
default_animals ==
  << [name |-> <<"D", "o", "g">>,
      features |-> ("mammal" :> One @@ "domestic" :> One @@ "four_legs" :> One @@ "barks" :> One @@ "carnivore" :> Half)],
     [name |-> <<"C", "a", "t">>,
      features |-> ("mammal" :> One @@ "domestic" :> One @@ "four_legs" :> One @@ "purrs" :> One @@ "carnivore" :> One)],
     [name |-> <<"E", "l", "e", "p", "h", "a", "n", "t">>,
      features |-> ("mammal" :> One @@ "large" :> One @@ "four_legs" :> One @@ "trunk" :> One @@ "herbivore" :> One)],
     [name |-> <<"L", "i", "o", "n">>,
      features |-> ("mammal" :> One @@ "carnivore" :> One @@ "four_legs" :> One @@ "wild" :> One @@ "roars" :> One)],
     [name |-> <<"F", "i", "s", "h">>,
      features |-> ("aquatic" :> One @@ "fins" :> One @@ "gills" :> One @@ "scales" :> One @@ "cold_blooded" :> One)],
     [name |-> <<"B", "i", "r", "d">>,
      features |-> ("flies" :> One @@ "feathers" :> One @@ "beak" :> One @@ "lays_eggs" :> One @@ "warm_blooded" :> One)],
     [name |-> <<"S", "n", "a", "k", "e">>,
      features |-> ("reptile" :> One @@ "no_legs" :> One @@ "cold_blooded" :> One @@ "carnivore" :> One @@ "long" :> One)],
     [name |-> <<"R", "a", "b", "b", "i", "t">>,
      features |-> ("mammal" :> One @@ "herbivore" :> One @@ "four_legs" :> One @@ "hops" :> One @@ "long_ears" :> One)],
     [name |-> <<"B", "e", "a", "r">>,
      features |-> ("mammal" :> One @@ "large" :> One @@ "four_legs" :> One @@ "omnivore" :> One @@ "wild" :> One)],
     [name |-> <<"W", "h", "a", "l", "e">>,
      features |-> ("mammal" :> One @@ "aquatic" :> One @@ "large" :> One @@ "intelligent" :> One @@ "warm_blooded" :> One)] >>

default_questions ==
  << [text |-> "Is it a mammal?", feature |-> "mammal", weight |-> 8],
     [text |-> "Does it live on land?", feature |-> "terrestrial", weight |-> 7],
     [text |-> "Is it larger than a house cat?", feature |-> "large", weight |-> 6],
     [text |-> "Is it a carnivore (meat-eater)?", feature |-> "carnivore", weight |-> 7],
     [text |-> "Does it have four legs?", feature |-> "four_legs", weight |-> 8],
     [text |-> "Is it a domestic animal?", feature |-> "domestic", weight |-> 6],
     [text |-> "Can it fly?", feature |-> "flies", weight |-> 9],
     [text |-> "Does it live in water?", feature |-> "aquatic", weight |-> 8],
     [text |-> "Is it a predator?", feature |-> "predator", weight |-> 6],
     [text |-> "Does it have fur?", feature |-> "fur", weight |-> 7] >>

feature_keywords ==
  << [feature |-> "large", keywords |->
        << <<"l", "a", "r", "g", "e">>,
           <<"b", "i", "g">>,
           <<"h", "u", "g", "e">>,
           <<"m", "a", "s", "s", "i", "v", "e">>,
           <<"g", "i", "a", "n", "t">> >>],
     [feature |-> "small", keywords |->
        << <<"s", "m", "a", "l", "l">>,
           <<"t", "i", "n", "y">>,
           <<"l", "i", "t", "t", "l", "e">>,
           <<"m", "i", "n", "i", "a", "t", "u", "r", "e">> >>],
     [feature |-> "aquatic", keywords |->
        << <<"w", "a", "t", "e", "r">>,
           <<"o", "c", "e", "a", "n">>,
           <<"s", "e", "a">>,
           <<"s", "w", "i", "m", "m", "i", "n", "g">>,
           <<"a", "q", "u", "a", "t", "i", "c">> >>],
     [feature |-> "flies", keywords |->
        << <<"f", "l", "y">>,
           <<"f", "l", "y", "i", "n", "g">>,
           <<"w", "i", "n", "g", "s">>,
           <<"a", "i", "r">>,
           <<"f", "l", "i", "g", "h", "t">> >>],
     [feature |-> "domestic", keywords |->
        << <<"p", "e", "t">>,
           <<"d", "o", "m", "e", "s", "t", "i", "c">>,
           <<"h", "o", "u", "s", "e">>,
           <<"t", "a", "m", "e">> >>],
     [feature |-> "wild", keywords |->
        << <<"w", "i", "l", "d">>,
           <<"j", "u", "n", "g", "l", "e">>,
           <<"f", "o", "r", "e", "s", "t">>,
           <<"s", "a", "f", "a", "r", "i">> >>],
     [feature |-> "carnivore", keywords |->
        << <<"m", "e", "a", "t">>,
           <<"c", "a", "r", "n", "i", "v", "o", "r", "e">>,
           <<"p", "r", "e", "d", "a", "t", "o", "r">>,
           <<"h", "u", "n", "t", "e", "r">> >>],
     [feature |-> "herbivore", keywords |->
        << <<"p", "l", "a", "n", "t", "s">>,
           <<"g", "r", "a", "s", "s">>,
           <<"h", "e", "r", "b", "i", "v", "o", "r", "e">>,
           <<"v", "e", "g", "e", "t", "a", "r", "i", "a", "n">> >>],
     [feature |-> "fur", keywords |->
        << <<"f", "u", "r">>,
           <<"f", "u", "r", "r", "y">>,
           <<"h", "a", "i", "r", "y">> >>],
     [feature |-> "feathers", keywords |->
        << <<"f", "e", "a", "t", "h", "e", "r">>,
           <<"f", "e", "a", "t", "h", "e", "r", "e", "d">> >>],
     [feature |-> "scales", keywords |->
        << <<"s", "c", "a", "l", "e">>,
           <<"s", "c", "a", "l", "e", "d">>,
           <<"s", "c", "a", "l", "y">> >>] >>

(***************************************************************************)
(* calculate_entropy.  The code returns an IEEE-754 double; the selector   *)
(* only compares entropy * weight with `>`.  EntropyTable[n][k] is the     *)
(* double computed for yes_count = k among n candidates, in units of       *)
(* 0.25e-6, keeping the one-ulp difference the code's `1 - yes_ratio`      *)
(* makes between k and n - k (e.g. 1/7 against 6/7).  For every n up to    *)
(* 16 and the weights of the question bank the order of                    *)
(* EntropyTable[n][k] * weight is the order of the doubles.                *)
(***************************************************************************)
EntropyTable ==
    << <<>>,
       <<4000000>>,
       <<3673184, 3673184>>,
       <<3245112, 4000000, 3245112>>,
       <<2887712, 3883804, 3883804, 2887712>>,
       <<2600088, 3673184, 4000000, 3673184, 2600088>>,
       <<2366692, 3452484, 3940912, 3940912, 3452484, 2366693>>,
       <<2174256, 3245112, 3817736, 4000000, 3817736, 3245112, 2174256>>,
       <<2013032, 3056820, 3673184, 3964304, 3964304, 3673184, 3056820, 2013033>>,
       <<1875985, 2887712, 3525164, 3883804, 4000000, 3883804, 3525164, 2887712, 1875984>>,
       <<1757988, 2736153, 3381404, 3782640, 3976120, 3976120, 3782640, 3381404, 2736152, 1757988>>,
       <<1655268, 2600088, 3245112, 3673184, 3919476, 4000000, 3919476, 3673184, 3245112, 2600088, 1655269>>,
       <<1564977, 2477528, 3117401, 3561968, 3844948, 3982908, 3982908, 3844948, 3561968, 3117400, 2477528, 1564976>>,
       <<1484929, 2366692, 2998380, 3452484, 3761144, 3940912, 4000000, 3940912, 3761144, 3452484, 2998380, 2366693, 1484928>>,
       <<1413437, 2266041, 2887712, 3346564, 3673184, 3883804, 3987168, 3987168, 3883804, 3673184, 3346564, 2887712, 2266040, 1413436>>,
       <<1349160, 2174256, 2784848, 3245112, 3584152, 3817736, 3954796, 4000000, 3954796, 3817736, 3584152, 3245112, 2784848, 2174256, 1349160>> >>

YesCount(as, candidates, feature) ==
  Cardinality({ i \in 1..Len(candidates) :
                  Get(as[candidates[i]].features, feature, 0) > Half })

calculate_entropy(as, candidates, feature) ==
  IF Len(candidates) <= 1
    THEN 0
    ELSE LET yes_count == YesCount(as, candidates, feature)
             total     == Len(candidates)
         IN  IF yes_count = 0 \/ yes_count = total
               THEN 0
               ELSE EntropyTable[total][yes_count]

(***************************************************************************)
(* get_best_question: the position in the bank of the chosen question,     *)
(* 0 for None.                                                             *)
(***************************************************************************)
InSeq(x, s) == \E i \in 1..Len(s) : s[i] = x

Positions(s) == [i \in 1..Len(s) |-> i]

Better_OrEqual(weighted_gain, max_gain) == weighted_gain >= max_gain

Better(weighted_gain, max_gain) == weighted_gain > max_gain

RECURSIVE BestQuestionLoop(_, _, _, _, _, _, _)
BestQuestionLoop(qs, as, candidates, available, i, best_question, max_gain) ==
  IF i > Len(available)
    THEN best_question
    ELSE LET q             == available[i]
             entropy       == calculate_entropy(as, candidates, qs[q].feature)
             weighted_gain == entropy * qs[q].weight
         IN  IF Better(weighted_gain, max_gain)
               THEN BestQuestionLoop(qs, as, candidates, available, i + 1,
                                     q, weighted_gain)
               ELSE BestQuestionLoop(qs, as, candidates, available, i + 1,
                                     best_question, max_gain)

get_best_question(qs, as, candidates, asked) ==
  LET available_questions ==
        SelectSeq(Positions(qs), LAMBDA q : ~InSeq(qs[q].feature, asked))
  IN  IF available_questions = << >>
        THEN 0
        ELSE BestQuestionLoop(qs, as, candidates, available_questions, 1, 0, 0)

(***************************************************************************)
(* filter_candidates                                                       *)
(***************************************************************************)
Excluded_AtBoundary(answer, animal_value) ==
  \/ answer = One /\ animal_value <= Half
  \/ answer = 0   /\ animal_value > Half

Excluded(answer, animal_value) ==
  \/ answer = One /\ animal_value < Half
  \/ answer = 0   /\ animal_value > Half

Matches_AnyAnswer(animal, ans) ==
  \/ DOMAIN ans = {}
  \/ \E feature \in DOMAIN ans :
        ~Excluded(ans[feature], Get(animal.features, feature, 0))

Matches(animal, ans) ==
  \A feature \in DOMAIN ans :
     ~Excluded(ans[feature], Get(animal.features, feature, 0))

filter_candidates(as, ans) ==
  SelectSeq(Positions(as), LAMBDA i : Matches(as[i], ans))

(***************************************************************************)
(* make_guess: [animal |-> position or 0 for None, confidence |-> 1/10000].*)
(* normalized_score and best_score are fractions [num, den]; the product   *)
(* best_score * (1 - (n - 1) * 0.1) is rounded down to 1/10000, which      *)
(* leaves the two clamp values 0.1 and 0.95 and the value 0 exact.         *)
(***************************************************************************)
Score(animal, ans) ==
  Cardinality({ feature \in DOMAIN ans :
     LET animal_value == Get(animal.features, feature, 0)
     IN  \/ ans[feature] = One /\ animal_value > Half
         \/ ans[feature] = 0   /\ animal_value < Half })

Normalized(score, total_features) ==
  IF total_features > 0 THEN [num |-> score, den |-> total_features]
                        ELSE [num |-> 0, den |-> 1]

Greater(a, b) == a.num * b.den > b.num * a.den

Min(a, b) == IF a < b THEN a ELSE b
Max(a, b) == IF a > b THEN a ELSE b

RECURSIVE ScoreLoop(_, _, _, _, _, _)
ScoreLoop(as, ans, candidates, i, best_animal, best_score) ==
  IF i > Len(candidates)
    THEN [animal |-> best_animal, score |-> best_score]
    ELSE LET normalized_score ==
               Normalized(Score(as[candidates[i]], ans), Cardinality(DOMAIN ans))
         IN  IF Greater(normalized_score, best_score)
               THEN ScoreLoop(as, ans, candidates, i + 1,
                              candidates[i], normalized_score)
               ELSE ScoreLoop(as, ans, candidates, i + 1,
                              best_animal, best_score)

Confidence(best_score, n) ==
  Min(9500, Max(1000, (best_score.num * (10 - (n - 1)) * 1000) \div best_score.den))

SingleCandidateGuess_Scored(as, ans, candidates) ==
  LET best == ScoreLoop(as, ans, candidates, 1, 0, [num |-> 0, den |-> 1])
  IN  [animal |-> best.animal,
       confidence |-> Confidence(best.score, Len(candidates))]

SingleCandidateGuess(as, ans, candidates) ==
  [animal |-> candidates[1], confidence |-> 9500]

make_guess(as, ans) ==
  LET candidates == filter_candidates(as, ans)
  IN  IF candidates = << >>
        THEN [animal |-> 0, confidence |-> 0]
        ELSE IF Len(candidates) = 1
          THEN SingleCandidateGuess(as, ans, candidates)
          ELSE LET best == ScoreLoop(as, ans, candidates, 1, 0,
                                     [num |-> 0, den |-> 1])
               IN  [animal |-> best.animal,
                    confidence |-> Confidence(best.score, Len(candidates))]

(***************************************************************************)
(* extract_features_from_description and learn_from_game (the update of    *)
(* self.animals; the history record and the save are in the Learn action). *)
(***************************************************************************)
KeywordFeatures(description) ==
  LET desc_lower == Lower(description)
  IN  { feature_keywords[i].feature : i \in
          { j \in 1..Len(feature_keywords) :
              \E k \in 1..Len(feature_keywords[j].keywords) :
                 Contains(feature_keywords[j].keywords[k], desc_lower) } }

extract_features_from_description(features, description) ==
  LET matched == KeywordFeatures(description)
  IN  [ f \in DOMAIN features \cup matched |->
          IF f \in matched THEN One ELSE features[f] ]

FindAnimal_CaseSensitive(as, actual_animal) ==
  IF \E i \in 1..Len(as) : as[i].name = actual_animal
    THEN CHOOSE i \in 1..Len(as) :
           /\ as[i].name = actual_animal
           /\ \A j \in 1..(i - 1) : as[j].name # actual_animal
    ELSE 0

LowerNames(as) == [i \in 1..Len(as) |-> Lower(as[i].name)]

FindAnimal(as, actual_animal) ==
  LET names  == LowerNames(as)
      wanted == Lower(actual_animal)
  IN  IF \E i \in 1..Len(as) : names[i] = wanted
        THEN CHOOSE i \in 1..Len(as) :
               /\ names[i] = wanted
               /\ \A j \in 1..(i - 1) : names[j] # wanted
        ELSE 0

UpdateFeatures_KeepExisting(features, ans) ==
  [ f \in DOMAIN features \cup DOMAIN ans |->
      IF f \in DOMAIN features THEN features[f] ELSE ans[f] ]

UpdateFeatures(features, ans) ==
  [ f \in DOMAIN features \cup DOMAIN ans |->
      IF f \in DOMAIN ans THEN ans[f] ELSE features[f] ]

LearnedFeatures(features, ans, description) ==
  LET updated == UpdateFeatures(features, ans)
  IN  IF description # << >>
        THEN extract_features_from_description(updated, description)
        ELSE updated

learn_from_game(as, actual_animal, ans, description) ==
  LET found == FindAnimal(as, actual_animal)
      list  == IF found = 0
                 THEN Append(as, [name |-> actual_animal, features |-> EmptyDict])
                 ELSE as
      at    == IF found = 0 THEN Len(list) ELSE found
  IN  [list EXCEPT ![at].features = LearnedFeatures(@, ans, description)]

(***************************************************************************)
(* json.dump / json.load on the four-field snapshot.  A JSON number is     *)
(* its integer digits and, for a float, its fraction digit; a JSON string  *)
(* is the quoted text; an object is a function from keys; an array is a    *)
(* sequence.                                                               *)
(***************************************************************************)
DumpValue(v) ==
  IF v % One = 0 THEN [digits |-> v \div One]
                 ELSE [digits |-> v \div One, frac |-> 5]

LoadValue(t) ==
  IF "frac" \in DOMAIN t THEN t.digits * One + Half ELSE t.digits * One

DumpWeight(w) == [digits |-> w \div 10, frac |-> w % 10]
LoadWeight(t) == t.digits * 10 + t.frac

DumpInt(n) == [digits |-> n]
LoadInt(t) == t.digits

DumpString(s) == [quoted |-> s]
LoadString(t) == t.quoted

DumpBool(b) == IF b THEN "true" ELSE "false"
LoadBool(t) == t = "true"

DumpValues(d) == [k \in DOMAIN d |-> DumpValue(d[k])]
LoadValues(o) == [k \in DOMAIN o |-> LoadValue(o[k])]

DumpAnimal(a) == [name |-> DumpString(a.name), features |-> DumpValues(a.features)]
LoadAnimal(o) == [name |-> LoadString(o.name), features |-> LoadValues(o.features)]

DumpQuestion(q) ==
  [text |-> DumpString(q.text), feature |-> DumpString(q.feature),
   weight |-> DumpWeight(q.weight)]
LoadQuestion(o) ==
  [text |-> LoadString(o.text), feature |-> LoadString(o.feature),
   weight |-> LoadWeight(o.weight)]

DumpRecord(r) ==
  [date |-> DumpString(r.date), animal |-> DumpString(r.animal),
   answers |-> DumpValues(r.answers), description |-> DumpString(r.description),
   success |-> DumpBool(r.success)]
LoadRecord(o) ==
  [date |-> LoadString(o.date), animal |-> LoadString(o.animal),
   answers |-> LoadValues(o.answers), description |-> LoadString(o.description),
   success |-> LoadBool(o.success)]

DumpStats(s) == [k \in DOMAIN s |-> DumpInt(s[k])]
LoadStats(o) == [k \in DOMAIN o |-> LoadInt(o[k])]

json_dump(data) ==
  [ k \in DOMAIN data |->
      CASE k = "animals"      -> [i \in 1..Len(data[k]) |-> DumpAnimal(data[k][i])]
        [] k = "questions"    -> [i \in 1..Len(data[k]) |-> DumpQuestion(data[k][i])]
        [] k = "game_history" -> [i \in 1..Len(data[k]) |-> DumpRecord(data[k][i])]
        [] k = "stats"        -> DumpStats(data[k]) ]

json_load(text) ==
  [ k \in DOMAIN text |->
      CASE k = "animals"      -> [i \in 1..Len(text[k]) |-> LoadAnimal(text[k][i])]
        [] k = "questions"    -> [i \in 1..Len(text[k]) |-> LoadQuestion(text[k][i])]
        [] k = "game_history" -> [i \in 1..Len(text[k]) |-> LoadRecord(text[k][i])]
        [] k = "stats"        -> LoadStats(text[k]) ]

(***************************************************************************)
(* save_data and the four loaders.  A file is [exists, text].              *)
(***************************************************************************)
SnapshotData_NoStats(as, qs, history, st) ==
  [animals |-> as, questions |-> qs, game_history |-> history]

SnapshotData(as, qs, history, st) ==
  [animals |-> as, questions |-> qs, game_history |-> history, stats |-> st]

save_data(as, qs, history, st) ==
  [exists |-> TRUE, text |-> json_dump(SnapshotData(as, qs, history, st))]

default_stats == [played |-> 0, correct |-> 0]

load_animals(f) ==
  IF f.exists THEN Get(json_load(f.text), "animals", default_animals)
              ELSE default_animals

load_questions(f) ==
  IF f.exists THEN Get(json_load(f.text), "questions", default_questions)
              ELSE default_questions

load_game_history(f) ==
  IF f.exists THEN Get(json_load(f.text), "game_history", << >>)
              ELSE << >>

load_stats(f) ==
  IF f.exists THEN Get(json_load(f.text), "stats", default_stats)
              ELSE default_stats

(***************************************************************************)
(* The data files the program is started on: no file (the built-in         *)
(* defaults), and hand-edited files that hold only an `animals` field.     *)
(*  - ChainAnimals: ten animals that each lack one question feature and    *)
(*    two that have all ten, so that a game of yes answers keeps three     *)
(*    candidates for as long as questions remain.                          *)
(*  - SmallAnimals: two or three animals with one feature valued 0, 0.5    *)
(*    or 1.                                                                *)
(***************************************************************************)
QuestionFeatures == { default_questions[i].feature : i \in 1..Len(default_questions) }

ChainAnimals ==
  [ i \in 1..(Len(default_questions) + 2) |->
      [name |-> << LowerCase[i] >>,
       features |-> [ f \in { g \in QuestionFeatures :
                                i > Len(default_questions)
                                  \/ g # default_questions[i].feature } |-> One ]] ]

SmallFeature == "large"

SmallAnimals ==
  { [ i \in 1..n |-> [name |-> << LowerCase[i] >>,
                      features |-> (SmallFeature :> v[i])] ] :
      n \in 2..3, v \in [1..3 -> {0, Half, One}] }

AnimalsFile(as) ==
  [exists |-> TRUE, text |-> ("animals" :> [i \in 1..Len(as) |-> DumpAnimal(as[i])])]

NoFile == [exists |-> FALSE, text |-> EmptyDict]

DataFiles ==
  {NoFile} \cup {AnimalsFile(ChainAnimals)} \cup {AnimalsFile(as) : as \in SmallAnimals}

(***************************************************************************)
(* What the user types: the animal's name and an optional description      *)
(* (both already stripped).  "dog" and "DOG" equal the default "Dog"       *)
(* ignoring case and are new names on the other files; "Yak" is new        *)
(* everywhere.  "Big" matches a keyword of large in lower case; "hairy"    *)
(* matches a keyword of fur and, by substring, "air" of flies.             *)
(***************************************************************************)
LearnInputs ==
  { [actual_animal |-> << "d", "o", "g" >>, description |-> << >>],
    [actual_animal |-> << "D", "O", "G" >>,
     description |-> << "B", "i", "g", " ", "h", "a", "i", "r", "y" >>],
    [actual_animal |-> << "Y", "a", "k" >>, description |-> << >>] }

NoGuess == [animal |-> 0, confidence |-> 0]

(***************************************************************************)
(* __init__                                                                *)
(***************************************************************************)
Init ==
  /\ file \in DataFiles
  /\ animals = load_animals(file)
  /\ questions = load_questions(file)
  /\ game_history = load_game_history(file)
  /\ stats = load_stats(file)
  /\ pc = "menu"
  /\ games = 0
  /\ answers = EmptyDict
  /\ asked_features = << >>
  /\ question_num = 0
  /\ question = 0
  /\ guess = NoGuess

(***************************************************************************)
(* main(): choice 1 calls play_game.  Choice 2 (show_stats) and an invalid *)
(* choice change nothing; choice 3 ends the program with no further step.  *)
(***************************************************************************)
PlayGame ==
  /\ pc = "menu"
  /\ games < MaxGames
  /\ games' = games + 1
  /\ answers' = EmptyDict
  /\ asked_features' = << >>
  /\ question_num' = 1
  /\ pc' = "loop"
  /\ UNCHANGED << animals, questions, game_history, stats, file, question, guess >>

(***************************************************************************)
(* play_game, the question loop (lines 251-274).  pc = "loop" is the head  *)
(* of an iteration, pc = "ask" the prompt of the chosen question.  An      *)
(* answer other than yes/y/no/n prompts again and changes nothing.         *)
(***************************************************************************)
Candidates == filter_candidates(animals, answers)

LoopBreakCondition(candidates, num) ==
  Len(candidates) <= 2 \/ num >= max_questions

LoopBreak ==
  /\ pc = "loop"
  /\ \/ question_num > max_questions
     \/ LoopBreakCondition(Candidates, question_num)
  /\ pc' = "guess"
  /\ UNCHANGED << animals, questions, game_history, stats, file, games,
                  answers, asked_features, question_num, question, guess >>

NoQuestion ==
  /\ pc = "loop"
  /\ question_num <= max_questions
  /\ ~LoopBreakCondition(Candidates, question_num)
  /\ get_best_question(questions, animals, Candidates, asked_features) = 0
  /\ pc' = "guess"
  /\ UNCHANGED << animals, questions, game_history, stats, file, games,
                  answers, asked_features, question_num, question, guess >>

AskQuestion ==
  /\ pc = "loop"
  /\ question_num <= max_questions
  /\ ~LoopBreakCondition(Candidates, question_num)
  /\ get_best_question(questions, animals, Candidates, asked_features) # 0
  /\ question' = get_best_question(questions, animals, Candidates, asked_features)
  /\ pc' = "ask"
  /\ UNCHANGED << animals, questions, game_history, stats, file, games,
                  answers, asked_features, question_num, guess >>

Record(ans, feature, answer) ==
  [ f \in DOMAIN ans \cup {feature} |-> IF f = feature THEN answer ELSE ans[f] ]

Answer(answer) ==
  /\ pc = "ask"
  /\ answers' = Record(answers, questions[question].feature, answer)
  /\ asked_features' = Append(asked_features, questions[question].feature)
  /\ question_num' = question_num + 1
  /\ question' = 0
  /\ pc' = "loop"
  /\ UNCHANGED << animals, questions, game_history, stats, file, games, guess >>

AnswerYes == Answer(One)

AnswerNo == Answer(0)

(***************************************************************************)
(* play_game, the guess and its confirmation (lines 276-294).              *)
(***************************************************************************)
MakeGuess ==
  /\ pc = "guess"
  /\ guess' = make_guess(animals, answers)
  /\ pc' = IF guess'.animal # 0 THEN "confirm" ELSE "learn"
  /\ UNCHANGED << animals, questions, game_history, stats, file, games,
                  answers, asked_features, question_num, question >>

ConfirmedStats(st) ==
  [st EXCEPT !.played = @ + 1, !.correct = @ + 1]

ConfirmYes ==
  /\ pc = "confirm"
  /\ stats' = ConfirmedStats(stats)
  /\ file' = save_data(animals, questions, game_history, stats')
  /\ pc' = "menu"
  /\ answers' = EmptyDict
  /\ asked_features' = << >>
  /\ question_num' = 0
  /\ guess' = NoGuess
  /\ UNCHANGED << animals, questions, game_history, games, question >>

ConfirmNo ==
  /\ pc = "confirm"
  /\ pc' = "learn"
  /\ UNCHANGED << animals, questions, game_history, stats, file, games,
                  answers, asked_features, question_num, question, guess >>

(***************************************************************************)
(* play_game, learning mode (lines 296-302) with the whole of              *)
(* learn_from_game (lines 177-208).  The date of the record is the         *)
(* ordinal of the game.                                                    *)
(***************************************************************************)
GameRecord(date, actual_animal, ans, description) ==
  [date |-> date, animal |-> actual_animal, answers |-> ans,
   description |-> description, success |-> FALSE]

LearnedStats_NotCounted(st) == st

LearnedStats(st) == [st EXCEPT !.played = @ + 1]

Learn(actual_animal, description) ==
  /\ pc = "learn"
  /\ stats' = LearnedStats(stats)
  /\ animals' = learn_from_game(animals, actual_animal, answers, description)
  /\ game_history' = Append(game_history,
                            GameRecord(games, actual_animal, answers, description))
  /\ file' = save_data(animals', questions, game_history', stats')
  /\ pc' = "menu"
  /\ answers' = EmptyDict
  /\ asked_features' = << >>
  /\ question_num' = 0
  /\ guess' = NoGuess
  /\ UNCHANGED << questions, games, question >>

LearnFromGame ==
  \E input \in LearnInputs : Learn(input.actual_animal, input.description)

Next ==
  \/ PlayGame
  \/ LoopBreak
  \/ NoQuestion
  \/ AskQuestion
  \/ AnswerYes
  \/ AnswerNo
  \/ MakeGuess
  \/ ConfirmYes
  \/ ConfirmNo
  \/ LearnFromGame

Spec == Init /\ [][Next]_vars

(***************************************************************************)
(* Properties.                                                             *)
(***************************************************************************)
Range(s) == { s[i] : i \in 1..Len(s) }

Last(s) == s[Len(s)]

AnswerSets(features) == UNION { [S -> {0, One}] : S \in SUBSET features }

Extends(B, A) ==
  /\ DOMAIN A \subseteq DOMAIN B
  /\ \A f \in DOMAIN A : B[f] = A[f]

CheckedFeatures == {"large", "carnivore"}

CheckedAnswerSets == AnswerSets(CheckedFeatures)

ExtendingPairs ==
  { pair \in CheckedAnswerSets \X CheckedAnswerSets : Extends(pair[2], pair[1]) }

(* C1: for the stored animals and every pair <<A, B>> of answer sets where B *)
(* has the answers of A and possibly more, the candidates under B are      *)
(* among the candidates under A, which are among the stored animals.  The  *)
(* stored animals change only when a game returns to the menu, so the menu *)
(* states hold every list of animals the program reaches.                  *)
C1_FilterMonotone ==
  pc = "menu" =>
    LET filtered == [ A \in CheckedAnswerSets |->
                        Range(filter_candidates(animals, A)) ]
    IN  \A pair \in ExtendingPairs :
          /\ filtered[pair[2]] \subseteq filtered[pair[1]]
          /\ filtered[pair[1]] \subseteq 1..Len(animals)

C1_Witness ==
  /\ game_history # << >>
  /\ \E A, B \in CheckedAnswerSets :
       /\ Extends(B, A)
       /\ Len(filter_candidates(animals, B)) < Len(filter_candidates(animals, A))
       /\ Len(filter_candidates(animals, A)) < Len(animals)
       /\ filter_candidates(animals, B) # << >>

(* C2: when the guess is made with no answer recorded and at least two     *)
(* candidates, make_guess returns the first stored animal with confidence  *)
(* 0.1.                                                                    *)
C2_FirstEntityAtMinConfidence ==
  ( /\ pc \in {"confirm", "learn"}
    /\ answers = EmptyDict
    /\ Len(Candidates) >= 2 )
  => guess = [animal |-> 1, confidence |-> 1000]

(* C3: after learn_from_game returns, every feature of the answers is      *)
(* stored on the named animal with the value of the answer, whatever the   *)
(* description.                                                            *)
LearnReturns == pc = "learn" /\ pc' = "menu"

NamedAnimal(as, history) == as[FindAnimal(as, Last(history).animal)]

C3_AnswersStored ==
  [][ LearnReturns =>
        \A f \in DOMAIN answers :
           NamedAnimal(animals', game_history').features[f] = answers[f] ]_vars

(* C3, amended: after learn_from_game returns, every feature of the        *)
(* answers that no keyword of the description names is stored on the named *)
(* animal with the value of the answer; a feature whose keyword occurs in  *)
(* the lower-cased description is stored as 1, whatever the answer was.    *)
C3_AnswersStoredUnlessDescribed ==
  [][ LearnReturns =>
        LET described == KeywordFeatures(Last(game_history').description)
            stored    == NamedAnimal(animals', game_history').features
        IN  /\ \A f \in DOMAIN answers \ described : stored[f] = answers[f]
            /\ \A f \in described : stored[f] = One ]_vars

C3_Witness ==
  /\ pc = "menu"
  /\ game_history # << >>
  /\ LET r == Last(game_history)
     IN  /\ "large" \in DOMAIN r.answers
         /\ r.answers["large"] = 0
         /\ "large" \in KeywordFeatures(r.description)
         /\ NamedAnimal(animals, game_history).features["large"] = One
         /\ \E f \in DOMAIN r.answers \ KeywordFeatures(r.description) :
              NamedAnimal(animals, game_history).features[f] = r.answers[f]

(* C4: the question loop has stopped exactly when 10 questions have been   *)
(* asked in this game, or at most 2 candidates remain, or                  *)
(* get_best_question returns none; otherwise another question is asked.    *)
StopCondition ==
  \/ Len(asked_features) = max_questions
  \/ Len(Candidates) <= 2
  \/ get_best_question(questions, animals, Candidates, asked_features) = 0

C4_StopsExactlyWhen ==
  /\ pc = "guess" => StopCondition
  /\ pc = "ask" => ~StopCondition

(* C5: a learn_from_game call with a name that matches no stored animal    *)
(* ignoring case appends exactly one animal, a call with a name that       *)
(* matches one appends none and changes at most that animal, no step       *)
(* removes or renames an animal, and no two stored animals have names      *)
(* equal ignoring case.                                                    *)
NoDuplicateNames ==
  LET names == LowerNames(animals)
  IN  \A i, j \in 1..Len(animals) : names[i] = names[j] => i = j

LearnEffect ==
  LET name   == Last(game_history').animal
      wanted == Lower(name)
      names  == LowerNames(animals)
      known  == \E i \in 1..Len(animals) : names[i] = wanted
  IN  IF known
        THEN /\ Len(animals') = Len(animals)
             /\ \A i \in 1..Len(animals) :
                  names[i] # wanted => animals'[i] = animals[i]
        ELSE /\ Len(animals') = Len(animals) + 1
             /\ Last(animals').name = name
             /\ \A i \in 1..Len(animals) : animals'[i] = animals[i]

C5_LearnAddsOrMutates ==
  /\ []NoDuplicateNames
  /\ [][ /\ Len(animals') >= Len(animals)
         /\ \A i \in 1..Len(animals) : animals'[i].name = animals[i].name
         /\ LearnReturns => LearnEffect
         /\ ~LearnReturns => animals' = animals ]_vars

C5_Witness ==
  /\ pc = "menu"
  /\ Len(game_history) = 2
  /\ game_history[1].animal = << "d", "o", "g" >>
  /\ game_history[2].animal = << "D", "O", "G" >>
  /\ Last(animals).name = << "d", "o", "g" >>
  /\ "large" \in DOMAIN Last(animals).features

(* C6: whenever exactly one stored animal is consistent with the answers,  *)
(* make_guess returns that animal with confidence 0.95; with the ten       *)
(* default animals and answers {mammal: 1, aquatic: 1} the filter yields   *)
(* exactly Whale and make_guess returns (Whale, 0.95).                     *)
WhaleAnswers == ("mammal" :> One @@ "aquatic" :> One)

SingleCandidateCases == AnswerSets({"mammal", "aquatic", "large"})

SingleCandidateAt95(A) ==
  Len(filter_candidates(animals, A)) = 1 =>
    make_guess(animals, A) =
      [animal |-> filter_candidates(animals, A)[1], confidence |-> 9500]

C6_SingleCandidate ==
  /\ pc = "menu" => \A A \in SingleCandidateCases : SingleCandidateAt95(A)
  /\ SingleCandidateAt95(answers)
  /\ ( pc \in {"confirm", "learn"} /\ Len(Candidates) = 1 ) =>
         guess = [animal |-> Candidates[1], confidence |-> 9500]
  /\ animals = default_animals =>
       /\ Len(filter_candidates(animals, WhaleAnswers)) = 1
       /\ animals[filter_candidates(animals, WhaleAnswers)[1]].name
            = << "W", "h", "a", "l", "e" >>
       /\ animals[make_guess(animals, WhaleAnswers).animal].name
            = << "W", "h", "a", "l", "e" >>
       /\ make_guess(animals, WhaleAnswers).confidence = 9500

C6_Witness ==
  /\ animals = default_animals
  /\ pc = "confirm"
  /\ Len(Candidates) = 1
  /\ guess.animal = Candidates[1]
  /\ Len(filter_candidates(animals, WhaleAnswers)) = 1

(* C7: get_best_question returns a question if and only if some question  *)
(* whose feature has not been asked splits the candidates (one candidate   *)
(* above 0.5 and one at or below 0.5); the question it returns has a       *)
(* feature not asked before and splits the candidates; no feature is asked *)
(* twice in a game.                                                        *)
Splits(feature) ==
  /\ \E i \in Range(Candidates) : Get(animals[i].features, feature, 0) > Half
  /\ \E i \in Range(Candidates) : Get(animals[i].features, feature, 0) <= Half

Unasked(q) == ~InSeq(questions[q].feature, asked_features)

C7_BestQuestionSplits ==
  LET q == get_best_question(questions, animals, Candidates, asked_features)
  IN  /\ q # 0 <=> \E j \in 1..Len(questions) :
                      Unasked(j) /\ Splits(questions[j].feature)
      /\ q # 0 => Unasked(q) /\ Splits(questions[q].feature)
      /\ pc = "ask" => q = question
      /\ \A i, j \in 1..Len(asked_features) :
            asked_features[i] = asked_features[j] => i = j

C7_Witness ==
  /\ pc = "ask"
  /\ Len(asked_features) >= 2
  /\ \E j \in 1..Len(questions) : Unasked(j) /\ ~Splits(questions[j].feature)
  /\ \E j \in 1..Len(questions) :
        j # question /\ Unasked(j) /\ Splits(questions[j].feature)

(* C8: after every completed play_game call, however it ended, loading the *)
(* saved file gives the animals, questions, game_history and stats held in *)
(* memory.                                                                 *)
C8_SnapshotEqualsMemory ==
  ( pc = "menu" /\ games >= 1 ) =>
     /\ file.exists
     /\ load_animals(file) = animals
     /\ load_questions(file) = questions
     /\ load_game_history(file) = game_history
     /\ load_stats(file) = stats

C8_Witness ==
  /\ pc = "menu"
  /\ games = 2
  /\ stats.correct = 1
  /\ Len(game_history) = 1
  /\ \E i \in 1..Len(animals) : \E f \in DOMAIN animals[i].features :
        animals[i].features[f] = Half

(* C9: the counters never decrease; a completed play_game adds 1 to played,*)
(* adds 1 to correct exactly when the guess was confirmed, and appends one *)
(* unsuccessful record to game_history exactly when it was not; between    *)
(* games correct <= played and played = correct + number of records.       *)
GameReturns == pc # "menu" /\ pc' = "menu"

C9_Counters ==
  /\ [](pc = "menu" =>
          /\ stats.correct <= stats.played
          /\ stats.played = stats.correct + Len(game_history))
  /\ [][ /\ stats'.played >= stats.played
         /\ stats'.correct >= stats.correct
         /\ Len(game_history') >= Len(game_history)
         /\ ~GameReturns => stats' = stats /\ game_history' = game_history
         /\ GameReturns => stats'.played = stats.played + 1
         /\ (GameReturns /\ pc = "confirm") =>
               /\ stats'.correct = stats.correct + 1
               /\ game_history' = game_history
         /\ (GameReturns /\ pc # "confirm") =>
               /\ stats'.correct = stats.correct
               /\ Len(game_history') = Len(game_history) + 1
               /\ SubSeq(game_history', 1, Len(game_history)) = game_history
               /\ Last(game_history').success = FALSE ]_vars

C9_Witness ==
  /\ pc = "menu"
  /\ stats.played = 2
  /\ stats.correct = 1
  /\ Len(game_history) = 1
  /\ game_history[1].date = 1

(* C10: for the question chosen by get_best_question, recording a yes      *)
(* answer and recording a no answer both leave strictly fewer candidates   *)
(* than before the question.                                               *)
CandidatesAfter(answer) ==
  filter_candidates(animals, Record(answers, questions[question].feature, answer))

C10_AnswerShrinks ==
  pc = "ask" =>
     /\ Len(CandidatesAfter(One)) < Len(Candidates)
     /\ Len(CandidatesAfter(0)) < Len(Candidates)

(* C10, amended: for the question chosen by get_best_question, a no answer *)
(* leaves strictly fewer candidates; a yes answer leaves a subset of the   *)
(* candidates, strictly fewer exactly when some candidate has a value      *)
(* below 0.5 for the feature (a candidate at exactly 0.5 counts as "no"    *)
(* for the entropy and is kept by a yes answer).                           *)
C10_AnswerShrinksUnlessBoundary ==
  pc = "ask" =>
     /\ Len(CandidatesAfter(0)) < Len(Candidates)
     /\ Range(CandidatesAfter(0)) \subseteq Range(Candidates)
     /\ Range(CandidatesAfter(One)) \subseteq Range(Candidates)
     /\ Len(CandidatesAfter(One)) < Len(Candidates)
          <=> \E i \in Range(Candidates) :
                 Get(animals[i].features, questions[question].feature, 0) < Half

C10_Witness ==
  /\ pc = "ask"
  /\ CandidatesAfter(One) = Candidates
  /\ Len(CandidatesAfter(0)) < Len(Candidates)


=============================================================================
